---- MODULE Spec2Model ----
(***************************************************************************)
(* Terminal inline-image preview of termagick (terminal_preview.go):       *)
(* capability detection from the process environment, the Kitty,           *)
(* OSC-1337 and Sixel transmitters, and PreviewWand's fallback chain.      *)
(*                                                                         *)
(* Strings are sequences of one-character strings, so that substring       *)
(* search, case folding, integer parsing and %d formatting are computed.   *)
(* A bitmap and its base64 text are represented by their lengths, and a    *)
(* payload chunk enc[lo:hi] by its offsets lo and hi.                      *)
(*                                                                         *)
(* The environment is read anew by every detection call, as in the code;   *)
(* nothing in the program calls os.Setenv, so it does not change after     *)
(* init().  Every caller passes a wand it has just created or loaded, so   *)
(* the wand is never nil.  os.Stdout.Write follows the io.Writer contract: *)
(* it writes everything and returns nil, or writes a proper prefix and     *)
(* returns an error.  The result of fmt.Println is discarded by the code   *)
(* and its newline is taken to reach the stream.                           *)
(***************************************************************************)
EXTENDS Integers, Sequences, FiniteSets, TLC

\* ------------------------------------------------------------ strings
Empty == <<>>
S_kitty == <<"k", "i", "t", "t", "y">>
S_ghostty == <<"g", "h", "o", "s", "t", "t", "y">>
S_ghost == <<"g", "h", "o", "s", "t">>
S_wezterm == <<"w", "e", "z", "t", "e", "r", "m">>
S_warp == <<"w", "a", "r", "p">>
S_tabby == <<"t", "a", "b", "b", "y">>
S_vscode == <<"v", "s", "c", "o", "d", "e">>
S_wez == <<"w", "e", "z">>
S_foot == <<"f", "o", "o", "t">>
S_st == <<"s", "t">>
S_linux == <<"l", "i", "n", "u", "x">>
S_iTermApp == <<"i", "T", "e", "r", "m", ".", "a", "p", "p">>
S_WezTerm == <<"W", "e", "z", "T", "e", "r", "m">>
S_Warp == <<"W", "a", "r", "p">>
S_Hyper == <<"H", "y", "p", "e", "r">>
S_VSCode == <<"V", "S", "C", "o", "d", "e">>
S_Tabby == <<"T", "a", "b", "b", "y">>
S_Bobcat == <<"B", "o", "b", "c", "a", "t">>
S_1 == <<"1">>
S_true == <<"t", "r", "u", "e">>
S_0 == <<"0">>
S_T == <<"T">>
S_100 == <<"1", "0", "0">>
S_d == <<"d">>
S_2 == <<"2">>
S_previewPng == <<"p", "r", "e", "v", "i", "e", "w", ".", "p", "n", "g">>
T_xterm == <<"x", "t", "e", "r", "m", "-", "2", "5", "6", "c", "o", "l", "o", "r">>
T_xtermKitty == <<"x", "t", "e", "r", "m", "-", "k", "i", "t", "t", "y">>
T_XtermGhostty == <<"X", "T", "E", "R", "M", "-", "G", "H", "O", "S", "T", "T", "Y">>
T_alacritty == <<"a", "l", "a", "c", "r", "i", "t", "t", "y">>
T_tmux == <<"t", "m", "u", "x", "-", "2", "5", "6", "c", "o", "l", "o", "r">>
T_Foot == <<"F", "o", "o", "t", "-", "e", "x", "t", "r", "a">>
P_AppleTerminal == <<"A", "p", "p", "l", "e", "_", "T", "e", "r", "m", "i", "n", "a", "l">>
P_itermLower == <<"i", "t", "e", "r", "m", ".", "a", "p", "p">>
V_7 == <<"7">>
V_80 == <<"8", "0">>
V_minus5 == <<"-", "5">>
V_abc == <<"a", "b", "c">>
V_plus7 == <<"+", "7">>
V_12x == <<"1", "2", "x">>
V_007 == <<"0", "0", "7">>
V_minus == <<"-">>
V_TRUE == <<"T", "R", "U", "E">>
V_yes == <<"y", "e", "s">>
V_3pt5 == <<"3", ".", "5">>

Uppers == <<"A","B","C","D","E","F","G","H","I","J","K","L","M",
            "N","O","P","Q","R","S","T","U","V","W","X","Y","Z">>
Lowers == <<"a","b","c","d","e","f","g","h","i","j","k","l","m",
            "n","o","p","q","r","s","t","u","v","w","x","y","z">>
Digits == <<"0","1","2","3","4","5","6","7","8","9">>

\* Each upper-case letter's lower-case letter.
LowerOf ==
    [c \in {Uppers[i] : i \in 1..Len(Uppers)} |->
        Lowers[CHOOSE i \in 1..Len(Uppers) : Uppers[i] = c]]

\* strings.ToLower on one character, then on a string.
LowerChar(c) == IF c \in DOMAIN LowerOf THEN LowerOf[c] ELSE c

ToLower(s) == [i \in 1..Len(s) |-> LowerChar(s[i])]

\* strings.Contains(s, sub)
Contains(s, sub) ==
    \E i \in 1..(Len(s) - Len(sub) + 1) : \A j \in 1..Len(sub) : s[i + j - 1] = sub[j]

IsDigit(c) == \E i \in 1..Len(Digits) : Digits[i] = c

DigitVal(c) == (CHOOSE i \in 1..Len(Digits) : Digits[i] = c) - 1

\* The digit loop of strconv.Atoi: n = n*10 + (ch - '0'), left to right.
RECURSIVE DigitsValue(_, _)
DigitsValue(s, acc) ==
    IF s = <<>> THEN acc
    ELSE DigitsValue(Tail(s), acc * 10 + DigitVal(Head(s)))

\* strconv.Atoi(s): an optional sign, then one or more decimal digits.
Atoi(s) ==
    LET signed == Len(s) > 0 /\ Head(s) \in {"-", "+"}
        ds     == IF signed THEN Tail(s) ELSE s
    IN  IF Len(ds) < 1 \/ \E i \in 1..Len(ds) : ~IsDigit(ds[i])
        THEN [n |-> 0, ok |-> FALSE]
        ELSE [n  |-> IF Head(s) = "-" THEN 0 - DigitsValue(ds, 0)
                     ELSE DigitsValue(ds, 0),
              ok |-> TRUE]

\* fmt.Sprintf("%d", n) for n >= 0.
RECURSIVE Itoa(_)
Itoa(n) ==
    IF n < 10 THEN <<Digits[n + 1]>>
    ELSE Itoa(n \div 10) \o <<Digits[(n % 10) + 1]>>

\* ------------------------------------------------------- environment
\* os.Getenv(name): the value, or the empty string when the variable is unset.
Getenv(e, name) == e[name]

EnvVars == {"KITTY_WINDOW_ID", "TERM", "KONSOLE_VERSION", "TERM_PROGRAM",
            "ITERM_SESSION_ID", "SIXEL_PREVIEW", "WT_SESSION",
            "KITTY_PREVIEW_COLS", "KITTY_PREVIEW_ROWS", "PREVIEW_DEBUG"}

\* init(): previewDebug is set when PREVIEW_DEBUG is "1" or "true".
InitPreviewDebug(e) ==
    LET debug == Getenv(e, "PREVIEW_DEBUG")
    IN  debug = S_1 \/ debug = S_true

\* Variant: TERM is searched as it stands, without strings.ToLower.
isKitty_CaseSensitive(e) ==
    LET term == Getenv(e, "TERM")
    IN  \/ Getenv(e, "KITTY_WINDOW_ID") # Empty
        \/ Contains(term, S_kitty) \/ Contains(term, S_ghostty) \/ Contains(term, S_ghost)
        \/ Getenv(e, "KONSOLE_VERSION") # Empty

isKitty(e) ==
    LET term == ToLower(Getenv(e, "TERM"))
    IN  \/ Getenv(e, "KITTY_WINDOW_ID") # Empty
        \/ Contains(term, S_kitty) \/ Contains(term, S_ghostty) \/ Contains(term, S_ghost)
        \/ Getenv(e, "KONSOLE_VERSION") # Empty

InlineTermPrograms ==
    {S_iTermApp, S_WezTerm, S_Warp, S_Hyper, S_vscode, S_VSCode, S_Tabby, S_Bobcat}

InlineTermHit(e) ==
    LET term == ToLower(Getenv(e, "TERM"))
    IN  \/ Contains(term, S_wezterm) \/ Contains(term, S_warp) \/ Contains(term, S_tabby)
        \/ Contains(term, S_vscode) \/ Contains(term, S_wez)

isInlineImageCapable(e) ==
    \/ Getenv(e, "TERM_PROGRAM") \in InlineTermPrograms
    \/ InlineTermHit(e)
    \/ Getenv(e, "ITERM_SESSION_ID") # Empty
    \/ Getenv(e, "TERM_PROGRAM") = S_iTermApp

isSixelCapable(e) ==
    LET term == ToLower(Getenv(e, "TERM"))
    IN  \/ Getenv(e, "SIXEL_PREVIEW") = S_1
        \/ Contains(term, S_foot) \/ Contains(term, S_st) \/ Contains(term, S_linux)
        \/ Getenv(e, "WT_SESSION") # Empty

\* Variant: the supported check lets every environment through.
PreviewSupported_Always(e) == TRUE

\* Variant: any terminal that names itself in TERM is taken to do Sixel.
PreviewSupported_AnyTerm(e) ==
    isKitty(e) \/ isInlineImageCapable(e) \/ Getenv(e, "TERM") # Empty

PreviewSupported(e) == isKitty(e) \/ isInlineImageCapable(e) \/ isSixelCapable(e)

\* The debugf calls one evaluation of isInlineImageCapable makes.
InlineEvents(e) ==
    <<"checking inline-image capability">> \o
    (IF Getenv(e, "TERM_PROGRAM") \in InlineTermPrograms
       THEN <<"TERM_PROGRAM indicates inline-capable">>
     ELSE IF InlineTermHit(e) THEN <<"TERM suggests inline-capable">>
     ELSE IF Getenv(e, "ITERM_SESSION_ID") # Empty THEN <<"iTerm2 indicators present">>
     ELSE <<>>)

\* The debugf calls one evaluation of PreviewSupported makes: the || chain
\* short-circuits, then the arguments of its own debugf are evaluated.
SupportedEvents(e) ==
    (IF isKitty(e) THEN <<>> ELSE InlineEvents(e)) \o InlineEvents(e)
    \o <<"PreviewSupported ->">>

\* Kitty placement: defaults, each replaced by a positive Atoi of its variable.
DefaultCols == 40
DefaultRows == 20

\* Variant: the sign test is n >= 0.
PlacementDim_NonNegative(v, default) ==
    IF v # Empty /\ Atoi(v).ok /\ Atoi(v).n >= 0 THEN Atoi(v).n ELSE default

PlacementDim(v, default) ==
    IF v # Empty /\ Atoi(v).ok /\ Atoi(v).n > 0 THEN Atoi(v).n ELSE default

KittyPlacement(e) ==
    [cols |-> PlacementDim(Getenv(e, "KITTY_PREVIEW_COLS"), DefaultCols),
     rows |-> PlacementDim(Getenv(e, "KITTY_PREVIEW_ROWS"), DefaultRows)]

\* --------------------------------------------------------- encoding
chunkSize == 4096
TrailingNewlines == 20

\* len(base64.StdEncoding.EncodeToString(data)) for len(data) = n (padded).
EncodedLen(n) == ((n + 2) \div 3) * 4

\* ----------------------------------------------------------- errors
\* A Go error: the chain of fmt.Errorf prefixes around it (outermost first), what
\* produced it, and for a write error the ordinal of the failed Write in this call
\* (each failed Write returns its own error value).
NoErr == [msg |-> <<>>, cause |-> "nil", id |-> 0]

Errorf(m) == [msg |-> <<m>>, cause |-> "errorf", id |-> 0]

Wrap(m, e) == [e EXCEPT !.msg = <<m>> \o @]

WriteErr(k) == [msg |-> <<>>, cause |-> "write", id |-> k]

\* ----------------------------------------------------- output stream
\* One control sequence is handed to a single Write; a Write that fails has put
\* a proper prefix of it on the stream (0 <= n < len), in these units.
SeqParts == <<"opener", "control", "payload", "terminator">>

SeqUnits == Len(SeqParts)

\* What a Write of sequence s puts on the stream when n units are written.
Written(s, n) ==
    IF n = 0 THEN <<>>
    ELSE << [s EXCEPT !.n    = n,
                      !.keys = IF n >= 2 THEN @ ELSE <<>>,
                      !.hi   = IF n >= 3 THEN @ ELSE s.lo] >>

Key(k, v) == [k |-> k, v |-> v]

\* "\x1b_Ga=T,f=100,t=d,q=2,c=%d,r=%d,m=%s;" + chunk + "\x1b\\"
KittyFirstSeq(cols, rows, mVal, lo, hi) ==
    [kind |-> "kitty", by |-> "kitty", cmd |-> "",
     keys |-> << Key("a", S_T), Key("f", S_100), Key("t", S_d), Key("q", S_2),
                 Key("c", Itoa(cols)), Key("r", Itoa(rows)), Key("m", mVal) >>,
     lo |-> lo, hi |-> hi, n |-> SeqUnits]

\* Variant: continuation sequences repeat the first sequence's control keys.
KittyNextSeq_WithMetadata(mVal, lo, hi) ==
    KittyFirstSeq(DefaultCols, DefaultRows, mVal, lo, hi)

\* "\x1b_G" + "m=" + mVal + ";" + chunk + "\x1b\\"
KittyNextSeq(mVal, lo, hi) ==
    [kind |-> "kitty", by |-> "kitty", cmd |-> "",
     keys |-> << Key("m", mVal) >>,
     lo |-> lo, hi |-> hi, n |-> SeqUnits]

\* Variant: size= carries the length of the base64 text.
InlineSeq_EncodedSize(len) ==
    [kind |-> "osc1337", by |-> "inline", cmd |-> "",
     keys |-> << Key("inline", S_1), Key("size", Itoa(EncodedLen(len))) >>,
     lo |-> 0, hi |-> EncodedLen(len), n |-> SeqUnits]

\* "\x1b]1337;File=inline=1;size=" + len(data) + ":" + enc + "\a"
InlineSeq(len) ==
    [kind |-> "osc1337", by |-> "inline", cmd |-> "",
     keys |-> << Key("inline", S_1), Key("size", Itoa(len)) >>,
     lo |-> 0, hi |-> EncodedLen(len), n |-> SeqUnits]

\* "\x1b]1337;File=name=preview.png;inline=1;size=" + len(data) + ":" + enc + "\a"
SixelLastResortSeq(len) ==
    [kind |-> "osc1337", by |-> "sixel", cmd |-> "",
     keys |-> << Key("name", S_previewPng), Key("inline", S_1), Key("size", Itoa(len)) >>,
     lo |-> 0, hi |-> EncodedLen(len), n |-> SeqUnits]

\* Variant: the newline loop stops one short.
Newlines_OneShort(t, count) ==
    << [kind |-> "newline", by |-> t, cmd |-> "", keys |-> <<>>,
        lo |-> 0, hi |-> 0, n |-> count - 1] >>

\* count calls of fmt.Println() by transmitter t.
Newlines(t, count) ==
    << [kind |-> "newline", by |-> t, cmd |-> "", keys |-> <<>>,
        lo |-> 0, hi |-> 0, n |-> count] >>

\* What an external renderer wrote to the stdout it inherited.
ToolOutput(cmd) ==
    << [kind |-> "tool", by |-> "sixel", cmd |-> cmd, keys |-> <<>>,
        lo |-> 0, hi |-> 0, n |-> 1] >>

\* cmd.Run(): the tool is not found, or runs and exits zero or non-zero, having
\* written to the terminal or not.
ToolOutcomes ==
    {[started |-> FALSE, exit0 |-> FALSE, wrote |-> FALSE]} \cup
    {[started |-> TRUE, exit0 |-> x, wrote |-> w] : x \in BOOLEAN, w \in BOOLEAN}

Img2sixelCmd == [cmd |-> "img2sixel", args |-> <<"-">>]

ChafaCmd == [cmd |-> "chafa", args |-> <<"--fill=block", "--symbols=block", "-s", "auto", "-">>]

\* ------------------------------------------------------------ bounds
\* Bitmaps fill up to MaxFullChunks whole 4096-character chunks, or one byte more.
MaxFullChunks == 2

RawPerChunk == (chunkSize \div 4) * 3

BlobLens ==
    {0, 1, 2} \cup {k * RawPerChunk + d : k \in 1..MaxFullChunks, d \in {0, 1}}

BaseEnv == [v \in EnvVars |-> Empty]

\* The placement variables of the environments the preview is run in.
PreviewPlacements == {<<Empty, Empty>>, <<V_80, V_minus5>>, <<S_0, V_7>>}

\* The environments the preview is run in; the placement variables vary where
\* they are read, on a Kitty terminal.
PreviewEnvs ==
    {[BaseEnv EXCEPT !["TERM"] = tc[1], !["TERM_PROGRAM"] = p,
                     !["SIXEL_PREVIEW"] = s, !["PREVIEW_DEBUG"] = d,
                     !["KITTY_PREVIEW_COLS"] = tc[2][1], !["KITTY_PREVIEW_ROWS"] = tc[2][2]] :
        tc \in ({T_xtermKitty} \X PreviewPlacements)
                \cup ({T_xterm, S_foot} \X {<<Empty, Empty>>}),
        p \in {Empty, S_vscode}, s \in {Empty, S_1}, d \in {Empty, S_1}}

\* The environments the detection rules and the placement parse are evaluated on.
TermValues ==
    {Empty, T_xterm, T_xtermKitty, T_XtermGhostty, T_alacritty, T_tmux, T_Foot,
     S_linux, S_WezTerm, S_vscode, S_Tabby, S_warp}

DetectEnvs ==
    {[BaseEnv EXCEPT !["TERM"] = t, !["KITTY_WINDOW_ID"] = k, !["KONSOLE_VERSION"] = ko,
                     !["TERM_PROGRAM"] = p, !["ITERM_SESSION_ID"] = i,
                     !["SIXEL_PREVIEW"] = s, !["WT_SESSION"] = w,
                     !["PREVIEW_DEBUG"] = d] :
        d \in {Empty, S_1}, t \in TermValues, k \in {Empty, V_7}, ko \in {Empty, V_7},
        p \in {Empty, S_iTermApp, P_itermLower, S_Hyper, P_AppleTerminal},
        i \in {Empty, V_abc}, s \in {Empty, S_1, S_0, S_true}, w \in {Empty, V_abc}}

PlacementValues ==
    {Empty, S_0, S_1, V_7, V_80, V_minus5, V_abc, V_plus7, V_12x, V_007, V_minus, V_3pt5}

PlacementEnvs ==
    {[BaseEnv EXCEPT !["KITTY_WINDOW_ID"] = V_7,
                     !["KITTY_PREVIEW_COLS"] = c, !["KITTY_PREVIEW_ROWS"] = r] :
        c \in PlacementValues, r \in PlacementValues}

DebugValues == {Empty, S_0, S_1, S_true, V_TRUE, V_yes}

\* ------------------------------------------------------------- state
VARIABLES
    env,          \* the process environment
    previewDebug, \* package variable set by init()
    wand,         \* the caller's wand
    clone,        \* the clone PreviewWand makes of it
    pc,           \* where the host / PreviewWand is
    blob,         \* len(blob) of the PNG obtained from the clone
    pos,          \* sendKittyPNG: loop variable
    first,        \* sendKittyPNG: first chunk still to send
    nwrites,      \* os.Stdout.Write calls made in this call
    primaryErr,   \* err of the primary transmitter, in scope during fallbacks
    site,         \* which call site of PreviewWand invoked sendSixelPNG
    stdout,       \* what this call has put on the terminal stream
    stderr,       \* the debug lines of this call
    procs,        \* external commands this call has run
    attempts,     \* transmitter invocations of this call, with their results
    ret,          \* PreviewWand's return value
    probe,        \* result of evaluating the detection rules
    caller        \* the call site of PreviewWand the host is at or came from

vars == <<env, previewDebug, wand, clone, pc, blob, pos, first, nwrites, primaryErr, site,
          stdout, stderr, procs, attempts, ret, probe, caller>>

NilWand == [format |-> "nil", image |-> "none"]

\* No clone made (yet); the clone once its format is set to PNG.
NoClone == [live |-> FALSE, format |-> "none", image |-> "none"]

PngClone(w) == [live |-> TRUE, format |-> "PNG", image |-> w.image]

\* defer clone.Destroy(): runs when PreviewWand returns.
DeferDestroy == clone' = IF pc' = "returned" THEN [clone EXCEPT !.live = FALSE] ELSE clone

NoRet == [done |-> FALSE, err |-> NoErr]

NoProbe == [done |-> FALSE, kitty |-> FALSE, inline |-> FALSE, sixel |-> FALSE,
            supported |-> FALSE, cols |-> 0, rows |-> 0]

InitCommon ==
    /\ previewDebug = InitPreviewDebug(env)
    /\ wand = [format |-> "JPEG", image |-> "loaded"]
    /\ pos = 0
    /\ first = TRUE
    /\ nwrites = 0
    /\ primaryErr = NoErr
    /\ site = "none"
    /\ stdout = <<>>
    /\ stderr = <<>>
    /\ procs = <<>>
    /\ attempts = <<>>
    /\ ret = NoRet
    /\ probe = NoProbe
    /\ caller = "startup"

Init ==
    /\ env \in PreviewEnvs
    /\ pc = "idle"
    /\ blob = 0
    /\ clone = NoClone
    /\ InitCommon

\* debugf: a line on stderr when previewDebug is set, nothing otherwise.
debugf(log, lines) == IF previewDebug THEN log \o lines ELSE log

Attempt(t) == [t |-> t, res |-> "running", err |-> NoErr]

\* The last attempt, finished with error e (NoErr: success).
Finish(as, e) ==
    [as EXCEPT ![Len(as)] = [@ EXCEPT !.res = IF e = NoErr THEN "ok" ELSE "fail",
                                      !.err = e]]

\* Variant: with tracing on, the error is only logged and nil is returned.
Return_DebugSwallows(e) ==
    /\ ret' = [done |-> TRUE, err |-> IF previewDebug THEN NoErr ELSE e]
    /\ pc' = "returned"

Return(e) ==
    /\ ret' = [done |-> TRUE, err |-> e]
    /\ pc' = "returned"

static == <<env, previewDebug, wand, probe, caller>>

\* ------------------------------------------------------- PreviewWand
\* PreviewWand, from its entry to the supported check.
PreviewWandEnter ==
    /\ pc = "idle"
    /\ blob' = 0 /\ pos' = 0 /\ first' = TRUE /\ nwrites' = 0
    /\ primaryErr' = NoErr /\ site' = "none"
    /\ stdout' = <<>> /\ procs' = <<>> /\ attempts' = <<>>
    /\ IF wand = NilWand
       THEN /\ stderr' = <<>>
            /\ Return(Errorf("nil wand"))
       ELSE /\ stderr' = debugf(<<>>, SupportedEvents(env) \o InlineEvents(env)
                                      \o <<"PreviewWand called">> \o SupportedEvents(env))
            /\ IF ~PreviewSupported(env)
               THEN Return(Errorf("no supported terminal preview protocol detected"))
               ELSE /\ ret' = NoRet
                    /\ pc' = "clone"
    /\ UNCHANGED static
    /\ DeferDestroy

LibErr == [msg |-> <<>>, cause |-> "imagick", id |-> 0]

\* What wand.Clone, clone.SetImageFormat and clone.GetImageBlob can answer.
LibOutcomes ==
    {[step |-> s, len |-> 0] : s \in {"clone_nil", "setformat_err", "getblob_err"}}
    \cup {[step |-> "ok", len |-> n] : n \in BlobLens}

\* Variant: the format is set on the caller's wand and the blob taken from it.
PrepareBlob_OnCallersWand ==
    /\ pc = "clone"
    /\ \E o \in LibOutcomes :
         /\ blob' = o.len
         /\ stderr' = IF o.step = "clone_nil"
                      THEN debugf(stderr, <<"failed to clone wand">>) ELSE stderr
         /\ IF o.step = "clone_nil" THEN Return(Errorf("failed to clone wand"))
            ELSE IF o.step = "setformat_err"
                 THEN Return(Wrap("failed to set PNG format", LibErr))
            ELSE IF o.step = "getblob_err"
                 THEN Return(Wrap("GetImageBlob failed", LibErr))
            ELSE IF o.len = 0 THEN Return(Errorf("empty image blob"))
            ELSE /\ pc' = "select"
                 /\ ret' = ret
         /\ wand' = IF o.step \in {"ok", "getblob_err"} THEN [wand EXCEPT !.format = "PNG"] ELSE wand
    /\ UNCHANGED <<pos, first, nwrites, primaryErr, site, stdout, procs, attempts>>
    /\ UNCHANGED <<env, previewDebug, probe, caller, clone>>

\* Clone the wand, set the clone's format to PNG, take its blob.
PrepareBlob ==
    /\ pc = "clone"
    /\ \E o \in LibOutcomes :
         /\ blob' = o.len
         /\ stderr' = IF o.step = "clone_nil"
                      THEN debugf(stderr, <<"failed to clone wand">>) ELSE stderr
         /\ IF o.step = "clone_nil" THEN Return(Errorf("failed to clone wand"))
            ELSE IF o.step = "setformat_err"
                 THEN Return(Wrap("failed to set PNG format", LibErr))
            ELSE IF o.step = "getblob_err"
                 THEN Return(Wrap("GetImageBlob failed", LibErr))
            ELSE IF o.len = 0 THEN Return(Errorf("empty image blob"))
            ELSE /\ pc' = "select"
                 /\ ret' = ret
         /\ clone' = IF o.step = "clone_nil" THEN NoClone
                      ELSE IF o.step = "setformat_err"
                           THEN [live |-> FALSE, format |-> wand.format, image |-> wand.image]
                      ELSE [PngClone(wand) EXCEPT !.live = (pc' # "returned")]
    /\ UNCHANGED <<pos, first, nwrites, primaryErr, site, stdout, procs, attempts>>
    /\ UNCHANGED static

\* isKitty() holds: sendKittyPNG is called and runs up to its loop.
KittyPrimary ==
    /\ pc = "select"
    /\ isKitty(env)
    /\ IF blob = 0
       THEN /\ primaryErr' = Errorf("no data")
            /\ attempts' = Finish(Append(attempts, Attempt("kitty")), Errorf("no data"))
            /\ stderr' = debugf(stderr, <<"attempting kitty protocol", "kitty protocol failed">>)
            /\ pc' = "kitty_failed"
       ELSE /\ primaryErr' = primaryErr
            /\ attempts' = Append(attempts, Attempt("kitty"))
            /\ stderr' = debugf(stderr, <<"attempting kitty protocol",
                                          "sendKittyPNG preparing", "kitty placement">>)
            /\ pc' = "kitty_loop"
    /\ pos' = 0
    /\ first' = TRUE
    /\ UNCHANGED <<blob, nwrites, site, stdout, procs, ret>>
    /\ UNCHANGED static
    /\ DeferDestroy

\* Variant: the test on last is inverted when choosing m.
KittyChunkSeq_InvertedM(e, len, p, isFirst) ==
    LET total == EncodedLen(len)
        end   == IF p + chunkSize > total THEN total ELSE p + chunkSize
        last  == end = total
        mVal  == IF last THEN S_1 ELSE S_0
    IN  IF isFirst
        THEN KittyFirstSeq(KittyPlacement(e).cols, KittyPlacement(e).rows, mVal, p, end)
        ELSE KittyNextSeq(mVal, p, end)

\* Variant: end is not cut back to the length of the encoded text.
KittyChunkSeq_Unclamped(e, len, p, isFirst) ==
    LET total == EncodedLen(len)
        end   == p + chunkSize
        last  == end >= total
        mVal  == IF ~last THEN S_1 ELSE S_0
    IN  IF isFirst
        THEN KittyFirstSeq(KittyPlacement(e).cols, KittyPlacement(e).rows, mVal, p, end)
        ELSE KittyNextSeq(mVal, p, end)

\* The sequence one iteration of sendKittyPNG's loop builds.
KittyChunkSeq(e, len, p, isFirst) ==
    LET total == EncodedLen(len)
        end   == IF p + chunkSize > total THEN total ELSE p + chunkSize
        last  == end = total
        mVal  == IF ~last THEN S_1 ELSE S_0
    IN  IF isFirst
        THEN KittyFirstSeq(KittyPlacement(e).cols, KittyPlacement(e).rows, mVal, p, end)
        ELSE KittyNextSeq(mVal, p, end)

\* Variant: on a write error the loop is left through the closing newline.
KittyChunk_NewlineOnError ==
    /\ pc = "kitty_loop"
    /\ pos < EncodedLen(blob)
    /\ \E n \in 0..SeqUnits :
         /\ stdout' = stdout \o Written(KittyChunkSeq(env, blob, pos, first), n)
                             \o (IF n = SeqUnits THEN <<>> ELSE Newlines("kitty", 1))
         /\ nwrites' = nwrites + 1
         /\ IF n = SeqUnits
            THEN /\ first' = FALSE
                 /\ pos' = pos + chunkSize
                 /\ UNCHANGED <<pc, primaryErr, attempts, stderr>>
            ELSE /\ primaryErr' = WriteErr(nwrites + 1)
                 /\ attempts' = Finish(attempts, WriteErr(nwrites + 1))
                 /\ stderr' = debugf(stderr, <<"kitty protocol failed">>)
                 /\ pc' = "kitty_failed"
                 /\ UNCHANGED <<first, pos>>
    /\ UNCHANGED <<blob, site, procs, ret>>
    /\ UNCHANGED static
    /\ DeferDestroy

\* One iteration of sendKittyPNG's loop: build the sequence, write it; a write
\* error ends sendKittyPNG and PreviewWand turns to its fallbacks.
KittyChunk ==
    /\ pc = "kitty_loop"
    /\ pos < EncodedLen(blob)
    /\ \E n \in 0..SeqUnits :
         /\ stdout' = stdout \o Written(KittyChunkSeq(env, blob, pos, first), n)
         /\ nwrites' = nwrites + 1
         /\ IF n = SeqUnits
            THEN /\ first' = FALSE
                 /\ pos' = pos + chunkSize
                 /\ UNCHANGED <<pc, primaryErr, attempts, stderr>>
            ELSE /\ primaryErr' = WriteErr(nwrites + 1)
                 /\ attempts' = Finish(attempts, WriteErr(nwrites + 1))
                 /\ stderr' = debugf(stderr, <<"kitty protocol failed">>)
                 /\ pc' = "kitty_failed"
                 /\ UNCHANGED <<first, pos>>
    /\ UNCHANGED <<blob, site, procs, ret>>
    /\ UNCHANGED static
    /\ DeferDestroy

\* The loop is over: one newline, sendKittyPNG returns nil, PreviewWand returns nil.
KittyFinish ==
    /\ pc = "kitty_loop"
    /\ ~(pos < EncodedLen(blob))
    /\ stdout' = stdout \o Newlines("kitty", 1)
    /\ attempts' = Finish(attempts, NoErr)
    /\ stderr' = debugf(stderr, <<"kitty protocol succeeded">>)
    /\ Return(NoErr)
    /\ UNCHANGED <<blob, pos, first, nwrites, primaryErr, site, procs>>
    /\ UNCHANGED static
    /\ DeferDestroy

\* Variant: sendInlineImagePNG without its test for empty data.
InlineResult_NoEmptyCheck(len, n, k) ==
    [out |-> Written(InlineSeq(len), n) \o Newlines("inline", TrailingNewlines),
     err |-> IF n = SeqUnits THEN NoErr ELSE WriteErr(k),
     ev  |-> <<"sendInlineImagePNG preparing", "wrote bytes for inline image">>,
     w   |-> 1]

\* Variant: sendInlineImagePNG returns a write error before its newline loop.
InlineResult_ReturnsBeforeNewlines(len, n, k) ==
    IF len = 0
    THEN [out |-> <<>>, err |-> Errorf("no data"), ev |-> <<>>, w |-> 0]
    ELSE [out |-> Written(InlineSeq(len), n)
                  \o (IF n = SeqUnits THEN Newlines("inline", TrailingNewlines) ELSE <<>>),
          err |-> IF n = SeqUnits THEN NoErr ELSE WriteErr(k),
          ev  |-> <<"sendInlineImagePNG preparing", "wrote bytes for inline image">>,
          w   |-> 1]

\* sendInlineImagePNG(data) when its Write puts n units on the stream and is the
\* k-th Write of the call: the output, the error returned, the debug lines.
InlineResult(len, n, k) ==
    IF len = 0
    THEN [out |-> <<>>, err |-> Errorf("no data"), ev |-> <<>>, w |-> 0]
    ELSE [out |-> Written(InlineSeq(len), n) \o Newlines("inline", TrailingNewlines),
          err |-> IF n = SeqUnits THEN NoErr ELSE WriteErr(k),
          ev  |-> <<"sendInlineImagePNG preparing", "wrote bytes for inline image">>,
          w   |-> 1]

\* Variant: no return after the inline fallback succeeded; control falls through
\* to the Sixel fallback.
KittyFallbackInline_FallsThrough ==
    /\ pc = "kitty_failed"
    /\ isInlineImageCapable(env)
    /\ \E n \in 0..SeqUnits :
         LET r == InlineResult(blob, n, nwrites + 1)
         IN  /\ stdout' = stdout \o r.out
             /\ nwrites' = nwrites + r.w
             /\ attempts' = Finish(Append(attempts, Attempt("inline")), r.err)
             /\ stderr' = stderr
             /\ pc' = "kitty_sixel"
             /\ ret' = ret
    /\ UNCHANGED <<blob, pos, first, primaryErr, site, procs>>
    /\ UNCHANGED static
    /\ DeferDestroy

\* After a Kitty failure: the inline-OSC fallback, when the terminal is inline-capable.
KittyFallbackInline ==
    /\ pc = "kitty_failed"
    /\ IF isInlineImageCapable(env)
       THEN \E n \in 0..SeqUnits :
              LET r == InlineResult(blob, n, nwrites + 1)
                  log == debugf(stderr, InlineEvents(env)
                                \o <<"falling back to inline image OSC">> \o r.ev)
              IN  /\ stdout' = stdout \o r.out
                  /\ nwrites' = nwrites + r.w
                  /\ attempts' = Finish(Append(attempts, Attempt("inline")), r.err)
                  /\ IF r.err = NoErr
                     THEN /\ stderr' = debugf(log, <<"inline image OSC succeeded after kitty failure">>)
                          /\ Return(NoErr)
                     ELSE /\ stderr' = debugf(log, <<"inline image OSC also failed">>)
                          /\ pc' = "kitty_sixel"
                          /\ ret' = ret
       ELSE /\ stderr' = debugf(stderr, InlineEvents(env))
            /\ pc' = "kitty_sixel"
            /\ UNCHANGED <<stdout, nwrites, attempts, ret>>
    /\ UNCHANGED <<blob, pos, first, primaryErr, site, procs>>
    /\ UNCHANGED static
    /\ DeferDestroy

\* Variant: the Kitty error is returned without the Sixel fallback.
KittyFallbackSixel_GivesUp ==
    /\ pc = "kitty_sixel"
    /\ Return(Wrap("kitty preview failed", primaryErr))
    /\ UNCHANGED <<blob, pos, first, nwrites, primaryErr, site, stdout, stderr, procs,
                   attempts>>
    /\ UNCHANGED static
    /\ DeferDestroy

\* After a Kitty failure (and an inline failure, if tried): the Sixel fallback, or
\* the Kitty error wrapped.
KittyFallbackSixel ==
    /\ pc = "kitty_sixel"
    /\ IF isSixelCapable(env)
       THEN /\ site' = "kitty"
            /\ attempts' = Append(attempts, Attempt("sixel"))
            /\ stderr' = debugf(stderr, <<"falling back to Sixel rendering">>)
            /\ pc' = "sixel_img2sixel"
            /\ ret' = ret
       ELSE /\ Return(Wrap("kitty preview failed", primaryErr))
            /\ UNCHANGED <<site, attempts, stderr>>
    /\ UNCHANGED <<blob, pos, first, nwrites, primaryErr, stdout, procs>>
    /\ UNCHANGED static
    /\ DeferDestroy

\* Variant: the inline branch is not behind the Kitty branch.
InlinePrimary_BeforeKitty ==
    /\ pc = "select"
    /\ isInlineImageCapable(env)
    /\ \E n \in 0..SeqUnits :
         LET r == InlineResult(blob, n, nwrites + 1)
             log == debugf(stderr, InlineEvents(env)
                           \o <<"attempting inline image OSC protocol">> \o r.ev)
         IN  /\ stdout' = stdout \o r.out
             /\ nwrites' = nwrites + r.w
             /\ attempts' = Finish(Append(attempts, Attempt("inline")), r.err)
             /\ IF r.err = NoErr
                THEN /\ stderr' = debugf(log, <<"inline image OSC succeeded">>)
                     /\ Return(NoErr)
                     /\ primaryErr' = primaryErr
                ELSE /\ stderr' = debugf(log, <<"inline image OSC failed">>)
                     /\ primaryErr' = r.err
                     /\ pc' = "inline_failed"
                     /\ ret' = ret
    /\ UNCHANGED <<blob, pos, first, site, procs>>
    /\ UNCHANGED static
    /\ DeferDestroy

\* Not Kitty, inline-capable: sendInlineImagePNG is the primary transmitter.
InlinePrimary ==
    /\ pc = "select"
    /\ ~isKitty(env)
    /\ isInlineImageCapable(env)
    /\ \E n \in 0..SeqUnits :
         LET r == InlineResult(blob, n, nwrites + 1)
             log == debugf(stderr, InlineEvents(env)
                           \o <<"attempting inline image OSC protocol">> \o r.ev)
         IN  /\ stdout' = stdout \o r.out
             /\ nwrites' = nwrites + r.w
             /\ attempts' = Finish(Append(attempts, Attempt("inline")), r.err)
             /\ IF r.err = NoErr
                THEN /\ stderr' = debugf(log, <<"inline image OSC succeeded">>)
                     /\ Return(NoErr)
                     /\ primaryErr' = primaryErr
                ELSE /\ stderr' = debugf(log, <<"inline image OSC failed">>)
                     /\ primaryErr' = r.err
                     /\ pc' = "inline_failed"
                     /\ ret' = ret
    /\ UNCHANGED <<blob, pos, first, site, procs>>
    /\ UNCHANGED static
    /\ DeferDestroy

\* After a primary inline failure: the Sixel fallback, or the inline error wrapped.
InlineFallbackSixel ==
    /\ pc = "inline_failed"
    /\ IF isSixelCapable(env)
       THEN /\ site' = "inline"
            /\ attempts' = Append(attempts, Attempt("sixel"))
            /\ stderr' = debugf(stderr, <<"falling back to Sixel rendering from inline image failure">>)
            /\ pc' = "sixel_img2sixel"
            /\ ret' = ret
       ELSE /\ Return(Wrap("inline image preview failed", primaryErr))
            /\ UNCHANGED <<site, attempts, stderr>>
    /\ UNCHANGED <<blob, pos, first, nwrites, primaryErr, stdout, procs>>
    /\ UNCHANGED static
    /\ DeferDestroy

\* Neither Kitty nor inline: sendSixelPNG when Sixel-capable, else the final error.
SixelPrimary ==
    /\ pc = "select"
    /\ ~isKitty(env)
    /\ ~isInlineImageCapable(env)
    /\ stderr' = debugf(stderr, InlineEvents(env))
    /\ IF isSixelCapable(env)
       THEN /\ site' = "sixel"
            /\ attempts' = Append(attempts, Attempt("sixel"))
            /\ pc' = "sixel_img2sixel"
            /\ ret' = ret
       ELSE /\ Return(Errorf("no preview protocol matched"))
            /\ UNCHANGED <<site, attempts>>
    /\ UNCHANGED <<blob, pos, first, nwrites, primaryErr, stdout, procs>>
    /\ UNCHANGED static
    /\ DeferDestroy

\* --------------------------------------------------------- sendSixelPNG
\* sendSixelPNG returns e to the call site that invoked it, and PreviewWand returns.
SixelReturn(e, log) ==
    /\ attempts' = Finish(attempts, e)
    /\ IF site = "kitty"
       THEN /\ stderr' = debugf(log, IF e = NoErr
                                     THEN <<"sixel succeeded after kitty failure">>
                                     ELSE <<"sixel also failed">>)
            /\ Return(IF e = NoErr THEN NoErr ELSE Wrap("kitty preview failed", primaryErr))
       ELSE IF site = "inline"
       THEN /\ stderr' = debugf(log, IF e = NoErr
                                     THEN <<"sixel succeeded after inline image failure">>
                                     ELSE <<"sixel also failed">>)
            /\ Return(IF e = NoErr THEN NoErr
                      ELSE Wrap("inline image preview failed", primaryErr))
       ELSE /\ stderr' = log
            /\ Return(IF e = NoErr THEN NoErr ELSE Wrap("sixel preview failed", e))

Ran(c, o) == [cmd |-> c.cmd, args |-> c.args, started |-> o.started, exit0 |-> o.exit0]

\* Variant: chafa is run whatever img2sixel answered.
SixelImg2sixel_AlwaysChafa ==
    /\ pc = "sixel_img2sixel"
    /\ \E o \in ToolOutcomes :
         /\ procs' = Append(procs, Ran(Img2sixelCmd, o))
         /\ stdout' = stdout \o (IF o.wrote THEN ToolOutput("img2sixel") ELSE <<>>)
    /\ pc' = "sixel_chafa"
    /\ UNCHANGED <<blob, pos, first, nwrites, primaryErr, site, stderr, attempts, ret>>
    /\ UNCHANGED static
    /\ DeferDestroy

\* The empty check, then img2sixel: on exit 0, twenty newlines and return nil.
SixelImg2sixel ==
    /\ pc = "sixel_img2sixel"
    /\ IF blob = 0
       THEN /\ SixelReturn(Errorf("no data"), stderr)
            /\ UNCHANGED <<stdout, procs>>
       ELSE \E o \in ToolOutcomes :
              LET out == IF o.wrote THEN ToolOutput("img2sixel") ELSE <<>>
                  log == debugf(stderr, <<"sendSixelPNG attempting img2sixel">>)
              IN  /\ procs' = Append(procs, Ran(Img2sixelCmd, o))
                  /\ IF o.started /\ o.exit0
                     THEN /\ stdout' = stdout \o out \o Newlines("sixel", TrailingNewlines)
                          /\ SixelReturn(NoErr, debugf(log, <<"img2sixel succeeded">>))
                     ELSE /\ stdout' = stdout \o out
                          /\ stderr' = debugf(log, <<"img2sixel failed">>)
                          /\ pc' = "sixel_chafa"
                          /\ UNCHANGED <<attempts, ret>>
    /\ UNCHANGED <<blob, pos, first, nwrites, primaryErr, site>>
    /\ UNCHANGED static
    /\ DeferDestroy

\* Variant: when chafa fails too, sendSixelPNG returns that failure.
SixelChafa_SurfacesFailure ==
    /\ pc = "sixel_chafa"
    /\ \E o \in ToolOutcomes :
         LET out == IF o.wrote THEN ToolOutput("chafa") ELSE <<>>
         IN  /\ procs' = Append(procs, Ran(ChafaCmd, o))
             /\ IF o.started /\ o.exit0
                THEN /\ stdout' = stdout \o out \o Newlines("sixel", TrailingNewlines)
                     /\ SixelReturn(NoErr, debugf(stderr, <<"chafa succeeded">>))
                ELSE /\ stdout' = stdout \o out
                     /\ SixelReturn(Errorf("chafa failed"),
                                    debugf(stderr, <<"chafa failed">>))
    /\ UNCHANGED <<blob, pos, first, nwrites, primaryErr, site>>
    /\ UNCHANGED static
    /\ DeferDestroy

\* img2sixel failed: chafa; on exit 0, twenty newlines and return nil.
SixelChafa ==
    /\ pc = "sixel_chafa"
    /\ \E o \in ToolOutcomes :
         LET out == IF o.wrote THEN ToolOutput("chafa") ELSE <<>>
         IN  /\ procs' = Append(procs, Ran(ChafaCmd, o))
             /\ IF o.started /\ o.exit0
                THEN /\ stdout' = stdout \o out \o Newlines("sixel", TrailingNewlines)
                     /\ SixelReturn(NoErr, debugf(stderr, <<"chafa succeeded">>))
                ELSE /\ stdout' = stdout \o out
                     /\ stderr' = debugf(stderr, <<"chafa failed">>)
                     /\ pc' = "sixel_last"
                     /\ UNCHANGED <<attempts, ret>>
    /\ UNCHANGED <<blob, pos, first, nwrites, primaryErr, site>>
    /\ UNCHANGED static
    /\ DeferDestroy

\* Both tools failed: the OSC-1337 sequence, twenty newlines, the Write's error.
SixelLastResort ==
    /\ pc = "sixel_last"
    /\ \E n \in 0..SeqUnits :
         /\ stdout' = stdout \o Written(SixelLastResortSeq(blob), n)
                             \o Newlines("sixel", TrailingNewlines)
         /\ nwrites' = nwrites + 1
         /\ SixelReturn(IF n = SeqUnits THEN NoErr ELSE WriteErr(nwrites + 1),
                        debugf(stderr, <<"falling back to inline PNG base64 sequence",
                                         "wrote bytes for inline PNG fallback">>))
    /\ UNCHANGED <<blob, pos, first, primaryErr, site, procs>>
    /\ UNCHANGED static
    /\ DeferDestroy

\* --------------------------------------------------------------- host
\* Variant: the host stops when PreviewWand returns an error.
Resume_ExitOnError ==
    /\ pc = "returned"
    /\ pc' = IF ret.err # NoErr THEN "exited" ELSE "prompt"
    /\ ret' = ret
    /\ blob' = 0 /\ pos' = 0 /\ first' = TRUE /\ nwrites' = 0
    /\ primaryErr' = NoErr /\ site' = "none"
    /\ stdout' = <<>> /\ stderr' = <<>> /\ procs' = <<>> /\ attempts' = <<>>
    /\ clone' = NoClone
    /\ UNCHANGED static

\* PreviewWand has returned to its call site: whatever the result, the host goes
\* on to the top of its loop and prints the prompt. The records of the finished
\* call are dropped; ret stays as the result the host has just discarded.
Resume ==
    /\ pc = "returned"
    /\ pc' = "prompt"
    /\ ret' = ret
    /\ blob' = 0 /\ pos' = 0 /\ first' = TRUE /\ nwrites' = 0
    /\ primaryErr' = NoErr /\ site' = "none"
    /\ stdout' = <<>> /\ stderr' = <<>> /\ procs' = <<>> /\ attempts' = <<>>
    /\ clone' = NoClone
    /\ UNCHANGED static

\* One pass of the host's loop from the prompt: a command applied to the image or
\* another image opened, each followed by a call of PreviewWand; or quit. (A command
\* that fails, a save and an unknown key lead back to the prompt with nothing
\* changed. Of the image only the format is kept, and the image the host holds
\* after the command has the same.)
HostCommand ==
    /\ pc = "prompt"
    /\ \E c \in {"edit", "open", "quit"} :
         IF c = "quit"
         THEN /\ pc' = "exited"
              /\ UNCHANGED <<wand, caller, ret>>
         ELSE /\ pc' = "idle"
              /\ caller' = c
              /\ ret' = NoRet
              /\ wand' = [format |-> wand.format, image |-> wand.image]
    /\ UNCHANGED <<env, previewDebug, probe, clone, blob, pos, first, nwrites, primaryErr,
                   site, stdout, stderr, procs, attempts>>

\* Where the host is outside a call of PreviewWand: at a call site, at its prompt,
\* or gone.
HostStates == {"idle", "prompt", "exited"}

Next ==
    \/ PreviewWandEnter
    \/ PrepareBlob
    \/ KittyPrimary
    \/ KittyChunk
    \/ KittyFinish
    \/ KittyFallbackInline
    \/ KittyFallbackSixel
    \/ InlinePrimary
    \/ InlineFallbackSixel
    \/ SixelPrimary
    \/ SixelImg2sixel
    \/ SixelChafa
    \/ SixelLastResort
    \/ Resume
    \/ HostCommand

Spec == Init /\ [][Next]_vars

\* ------------------------------------------- detection, evaluated alone
InitProbe ==
    /\ env \in DetectEnvs \cup PlacementEnvs
    /\ pc = "probe"
    /\ blob = 0
    /\ clone = NoClone
    /\ InitCommon

\* The three detection rules, PreviewSupported and the Kitty placement on env,
\* with the debugf calls isInlineImageCapable and PreviewSupported make.
Probe ==
    /\ pc = "probe"
    /\ probe' = [done |-> TRUE, kitty |-> isKitty(env),
                 inline |-> isInlineImageCapable(env), sixel |-> isSixelCapable(env),
                 supported |-> PreviewSupported(env),
                 cols |-> KittyPlacement(env).cols, rows |-> KittyPlacement(env).rows]
    /\ stderr' = debugf(stderr, InlineEvents(env) \o SupportedEvents(env))
    /\ pc' = "probed"
    /\ UNCHANGED <<env, previewDebug, wand, clone, blob, pos, first, nwrites, primaryErr,
                   site, stdout, procs, attempts, ret, caller>>

NextProbe == Probe

SpecProbe == InitProbe /\ [][NextProbe]_vars

\* ------------------------------- the transmitters, on any data at all
\* The transmitters as PreviewWand's dispatch calls them, handed a bitmap of any
\* length, the empty one included (PreviewWand itself never passes them one).
InitTransmit ==
    /\ env \in PreviewEnvs
    /\ pc = "select"
    /\ blob \in BlobLens
    /\ InitCommon
    /\ clone = PngClone(wand)

NextTransmit ==
    \/ KittyPrimary
    \/ KittyChunk
    \/ KittyFinish
    \/ KittyFallbackInline
    \/ KittyFallbackSixel
    \/ InlinePrimary
    \/ InlineFallbackSixel
    \/ SixelPrimary
    \/ SixelImg2sixel
    \/ SixelChafa
    \/ SixelLastResort

SpecTransmit == InitTransmit /\ [][NextTransmit]_vars

\* ------------------------------ two runs, PREVIEW_DEBUG set in one only
\* The terminals the two runs are made on: Kitty only, inline only, Sixel only,
\* none.
TwinEnvs ==
    {[BaseEnv EXCEPT !["TERM"] = tp[1], !["TERM_PROGRAM"] = tp[2],
                     !["PREVIEW_DEBUG"] = d] :
        tp \in {<<T_xtermKitty, Empty>>, <<T_xterm, S_vscode>>, <<S_foot, Empty>>,
                <<T_xterm, Empty>>},
        d \in {Empty, S_1}}

InitTwin ==
    /\ env \in TwinEnvs
    /\ pc = "idle"
    /\ blob = 0
    /\ clone = NoClone
    /\ InitCommon

\* What was not up to the program in a call: the bitmap it got, how far each
\* Write went, what each external command did and wrote.
Outcomes ==
    [blob |-> blob, procs |-> procs, nwrites |-> nwrites,
     failed |-> [i \in 1..Len(attempts) |-> attempts[i].err.id],
     shape |-> [i \in 1..Len(stdout) |-> <<stdout[i].cmd, stdout[i].n>>]]

\* The first run is over: its outcomes, its stdout and its result are kept, and
\* the program is started again with PREVIEW_DEBUG the other way (init() sets
\* previewDebug from it).
TwinFlip ==
    /\ pc = "returned"
    /\ ~probe.done
    /\ probe' = [done |-> TRUE, outcomes |-> Outcomes, stdout |-> stdout, ret |-> ret,
                 debug |-> previewDebug]
    /\ env' = [env EXCEPT !["PREVIEW_DEBUG"] = IF @ = S_1 THEN Empty ELSE S_1]
    /\ previewDebug' = InitPreviewDebug(env')
    /\ pc' = "idle"
    /\ ret' = NoRet
    /\ blob' = 0 /\ pos' = 0 /\ first' = TRUE /\ nwrites' = 0
    /\ primaryErr' = NoErr /\ site' = "none"
    /\ stdout' = <<>> /\ stderr' = <<>> /\ procs' = <<>> /\ attempts' = <<>>
    /\ clone' = NoClone
    /\ UNCHANGED <<wand, caller>>

NextTwin ==
    \/ PreviewWandEnter
    \/ PrepareBlob
    \/ KittyPrimary
    \/ KittyChunk
    \/ KittyFinish
    \/ KittyFallbackInline
    \/ KittyFallbackSixel
    \/ InlinePrimary
    \/ InlineFallbackSixel
    \/ SixelPrimary
    \/ SixelImg2sixel
    \/ SixelChafa
    \/ SixelLastResort
    \/ TwinFlip

SpecTwin == InitTwin /\ [][NextTwin]_vars

\* ------------------------------------------------------------ claims
AllCapable == isKitty(env) /\ isInlineImageCapable(env) /\ isSixelCapable(env)

NoneCapable == ~isKitty(env) /\ ~isInlineImageCapable(env) /\ ~isSixelCapable(env)

Attempted(t) == \E i \in 1..Len(attempts) : attempts[i].t = t

IsKittySeq(s) == s.kind = "kitty"

KittySeqs == SelectSeq(stdout, IsKittySeq)

KeyNames(s) == [j \in 1..Len(s.keys) |-> s.keys[j].k]

ValueOf(s, k) == s.keys[CHOOSE j \in 1..Len(s.keys) : s.keys[j].k = k].v

Writers == {stdout[i].by : i \in 1..Len(stdout)}

CeilDiv(a, b) == (a + b - 1) \div b

\* C1: with all three protocols detected and the Kitty transmission failed, the
\* inline-OSC transmitter is the next one attempted; when it succeeds PreviewWand
\* returns nil, the Sixel transmitter is not attempted and no external tool is run.
C1_InlineAfterKittyFailure ==
    (AllCapable /\ Len(attempts) >= 1 /\ attempts[1].t = "kitty" /\ attempts[1].res = "fail")
    => /\ pc # "kitty_failed" => (Len(attempts) >= 2 /\ attempts[2].t = "inline")
       /\ (Len(attempts) >= 2 /\ attempts[2].res = "ok")
          => /\ pc = "returned" /\ ret.done /\ ret.err = NoErr
             /\ ~Attempted("sixel")
             /\ procs = <<>>

C1_Witness ==
    /\ AllCapable /\ pc = "returned" /\ ret.err = NoErr
    /\ Len(attempts) = 2
    /\ attempts[1].t = "kitty" /\ attempts[1].res = "fail" /\ attempts[1].err.cause = "write"
    /\ attempts[2].t = "inline" /\ attempts[2].res = "ok"

\* C2: with all three protocols detected and Kitty and inline-OSC both failed,
\* Sixel is attempted and PreviewWand returns what the Sixel transmitter yielded:
\* nil when it succeeded, and the Sixel transmitter's own error when it failed.
C2_ReturnsSixelOutcome ==
    (AllCapable /\ pc = "returned" /\ Len(attempts) >= 2
       /\ attempts[1].t = "kitty" /\ attempts[1].res = "fail"
       /\ attempts[2].t = "inline" /\ attempts[2].res = "fail")
    => /\ Len(attempts) = 3 /\ attempts[3].t = "sixel"
       /\ attempts[3].res = "ok" => ret.err = NoErr
       /\ attempts[3].res = "fail"
          => (ret.err.cause = attempts[3].err.cause /\ ret.err.id = attempts[3].err.id)

C4_ChafaWhenUnsupported ==
    (NoneCapable /\ pc = "returned")
    => \E i \in 1..Len(procs) : procs[i].cmd = "chafa"

\* C5: in one PreviewWand call at most one transmitter has bytes on stdout.
C5_SingleWriter == Cardinality(Writers) <= 1

\* C6: every Kitty control sequence whose opener is on the stream also has its
\* terminator on the stream, at every point, a write error's aftermath included.
C6_EveryKittySeqTerminated ==
    \A i \in 1..Len(KittySeqs) : KittySeqs[i].n = SeqUnits

\* C7: a Kitty transmission without write error of a non-empty bitmap whose base64
\* text has length N leaves exactly ceil(N/4096) control sequences on the stream,
\* each complete, with m=1 on every one but the last and m=0 on the last.
C7_KittySequenceCount ==
    (blob > 0 /\ Len(attempts) >= 1 /\ attempts[1].t = "kitty" /\ attempts[1].res = "ok")
    => LET ks == KittySeqs
           count == CeilDiv(EncodedLen(blob), 4096)
       IN  /\ Len(ks) = count
           /\ \A i \in 1..Len(ks) :
                /\ ks[i].n = SeqUnits
                /\ Cardinality({j \in 1..Len(ks[i].keys) : ks[i].keys[j].k = "m"}) = 1
                /\ ValueOf(ks[i], "m") = (IF i < count THEN <<"1">> ELSE <<"0">>)

C7_Witness ==
    /\ blob > 0 /\ pc = "returned" /\ ret.err = NoErr
    /\ attempts = << [t |-> "kitty", res |-> "ok", err |-> NoErr] >>
    /\ Len(KittySeqs) = 3
    /\ EncodedLen(blob) = 2 * 4096 + 4

\* C8: of the Kitty control sequences of a transmission, the first carries the
\* keys a=T,f=100,t=d,q=2,c=<cols>,r=<rows>,m and every later one carries m alone.
C8_MetadataOnFirstOnly ==
    \A i \in 1..Len(KittySeqs) :
       LET s == KittySeqs[i]
       IN  s.n >= 2
           => IF i = 1
              THEN /\ KeyNames(s) = <<"a", "f", "t", "q", "c", "r", "m">>
                   /\ ValueOf(s, "a") = <<"T">>
                   /\ ValueOf(s, "f") = <<"1", "0", "0">>
                   /\ ValueOf(s, "t") = <<"d">>
                   /\ ValueOf(s, "q") = <<"2">>
                   /\ Atoi(ValueOf(s, "c")) = [n |-> KittyPlacement(env).cols, ok |-> TRUE]
                   /\ Atoi(ValueOf(s, "r")) = [n |-> KittyPlacement(env).rows, ok |-> TRUE]
              ELSE KeyNames(s) = <<"m">>

C8_Witness ==
    /\ pc = "returned" /\ ret.err = NoErr
    /\ Len(KittySeqs) = 3
    /\ KeyNames(KittySeqs[1]) = <<"a", "f", "t", "q", "c", "r", "m">>
    /\ KeyNames(KittySeqs[2]) = <<"m">>
    /\ KeyNames(KittySeqs[3]) = <<"m">>

\* Decimal notation, read from the formatting side: v is n written in decimal,
\* possibly with a leading plus sign and leading zeros.
MaxDim == 100

Denotes(v, n) ==
    LET u == IF v # <<>> /\ Head(v) = "+" THEN Tail(v) ELSE v
    IN  /\ u # <<>>
        /\ \E z \in 0..(Len(u) - 1) :
             /\ \A i \in 1..z : u[i] = "0"
             /\ SubSeq(u, z + 1, Len(u)) = Itoa(n)

ExpectedDim(v, default) ==
    IF \E n \in 1..MaxDim : Denotes(v, n)
    THEN CHOOSE n \in 1..MaxDim : Denotes(v, n)
    ELSE default

\* C9: the Kitty placement is 40 columns by 20 rows, except that a dimension whose
\* variable holds a positive integer takes that value; an unset, empty, non-numeric,
\* zero or negative value leaves that dimension's default, whatever the other holds.
C9_PlacementDefaults ==
    probe.done
    => /\ probe.cols = ExpectedDim(Getenv(env, "KITTY_PREVIEW_COLS"), 40)
       /\ probe.rows = ExpectedDim(Getenv(env, "KITTY_PREVIEW_ROWS"), 20)

C9_Witness ==
    /\ probe.done
    /\ Getenv(env, "KITTY_PREVIEW_COLS") = <<"8", "0">>
    /\ Getenv(env, "KITTY_PREVIEW_ROWS") = <<"-", "5">>
    /\ probe.cols = 80
    /\ probe.rows = 20

\* C10: the size= field of the OSC-1337 sequence the inline-OSC transmitter writes
\* is the byte length of the bitmap, not the length of its base64 text.
C10_InlineSizeIsRawLength ==
    \A i \in 1..Len(stdout) :
       (stdout[i].kind = "osc1337" /\ stdout[i].by = "inline" /\ stdout[i].n >= 2)
       => /\ blob > 0
          /\ Cardinality({j \in 1..Len(stdout[i].keys) : stdout[i].keys[j].k = "size"}) = 1
          /\ Atoi(ValueOf(stdout[i], "size")) = [n |-> blob, ok |-> TRUE]
          /\ Atoi(ValueOf(stdout[i], "size")).n # EncodedLen(blob)

C10_Witness ==
    /\ \E i \in 1..Len(stdout) :
         /\ stdout[i].kind = "osc1337" /\ stdout[i].by = "inline" /\ stdout[i].n = SeqUnits
         /\ ValueOf(stdout[i], "size") = <<"3", "0", "7", "3">>
         /\ stdout[i].hi - stdout[i].lo = 4100
    /\ blob = 3073

\* C11: every OSC-1337 sequence on the stream, from the inline transmitter or from
\* the Sixel transmitter's last resort, has the control part File=inline=1;size=<raw
\* length> and no other key.
C11_OscExactForm ==
    \A i \in 1..Len(stdout) :
        (stdout[i].kind = "osc1337" /\ stdout[i].n >= 2)
            => /\ KeyNames(stdout[i]) = <<"inline", "size">>
               /\ ValueOf(stdout[i], "inline") = S_1
               /\ ValueOf(stdout[i], "size") = Itoa(blob)

\* C12: a transmitter handed an empty bitmap returns the "no data" error with no
\* byte written to stdout and no external command started; this holds for each
\* of sendKittyPNG, sendInlineImagePNG and sendSixelPNG.
C12_EmptyBitmapRejected ==
    blob = 0
    => /\ stdout = <<>> /\ procs = <<>> /\ nwrites = 0
       /\ pc \in {"select", "kitty_failed", "kitty_sixel", "inline_failed",
                  "sixel_img2sixel", "returned"}
       /\ \A i \in 1..Len(attempts) :
             /\ attempts[i].res # "ok"
             /\ attempts[i].res = "fail" => attempts[i].err = Errorf("no data")

C12_Witness ==
    /\ blob = 0 /\ pc = "returned" /\ ret.err # NoErr
    /\ stdout = <<>> /\ procs = <<>>
    /\ [i \in 1..Len(attempts) |-> attempts[i].t] = <<"kitty", "inline", "sixel">>
    /\ \A i \in 1..3 : attempts[i].err = Errorf("no data")

ToolSucceeded(p) == p.started /\ p.exit0

SixelOscWritten == \E i \in 1..Len(stdout) : stdout[i].kind = "osc1337" /\ stdout[i].by = "sixel"

\* C13: sendSixelPNG runs img2sixel first; chafa is started only after img2sixel
\* failed to run or exited non-zero; the OSC-1337 last resort is reached and
\* written only after both tools failed; after a candidate succeeded no later one
\* is started.
C13_SixelCandidateOrder ==
    /\ Len(procs) <= 2
    /\ Len(procs) >= 1 => procs[1].cmd = Img2sixelCmd.cmd
    /\ Len(procs) = 2 => (procs[2].cmd = ChafaCmd.cmd /\ ~ToolSucceeded(procs[1]))
    /\ pc = "sixel_chafa" => (Len(procs) = 1 /\ ~ToolSucceeded(procs[1]))
    /\ (pc = "sixel_last" \/ SixelOscWritten)
         => (Len(procs) = 2 /\ \A j \in 1..2 : ~ToolSucceeded(procs[j]))
    /\ \A j \in 1..Len(procs) :
         ToolSucceeded(procs[j]) => (j = Len(procs) /\ ~SixelOscWritten /\ pc = "returned")

C13_Witness ==
    /\ pc = "returned" /\ ret.err = NoErr
    /\ Len(procs) = 2 /\ procs[1].started /\ ~procs[1].exit0 /\ ~procs[2].started
    /\ SixelOscWritten /\ stdout[Len(stdout) - 1].n = SeqUnits

SixelOnly == ~isKitty(env) /\ ~isInlineImageCapable(env) /\ isSixelCapable(env)

\* The newlines transmitter t prints after a delivery.
NewlinesAfter(t) == IF t = "kitty" THEN 1 ELSE TrailingNewlines

\* C14: when PreviewWand returns nil, the last thing on stdout is the run of
\* newlines of the transmitter that delivered, after all image data: exactly 1
\* for Kitty, exactly 20 for inline-OSC and for Sixel. With only Sixel detected
\* and a tool that exits 0, the call returns nil and the 20 newlines follow the
\* tool's output.
C14_SuccessEndsWithNewlines ==
    /\ (pc = "returned" /\ ret.err = NoErr)
        => /\ Len(attempts) >= 1 /\ Len(stdout) >= 1
           /\ LET d    == attempts[Len(attempts)]
                  last == stdout[Len(stdout)]
              IN  /\ d.res = "ok"
                  /\ last.kind = "newline" /\ last.by = d.t
                  /\ last.n = NewlinesAfter(d.t)
                  /\ \A i \in 1..(Len(stdout) - 1) :
                        stdout[i].by = d.t => stdout[i].kind # "newline"
    /\ (SixelOnly /\ pc = "returned" /\ procs # <<>> /\ ToolSucceeded(procs[Len(procs)]))
        => /\ ret.err = NoErr
           /\ stdout[Len(stdout)] = Newlines("sixel", TrailingNewlines)[1]
           /\ \A i \in 1..(Len(stdout) - 1) : stdout[i].kind = "tool"

C14_Witness ==
    /\ SixelOnly /\ pc = "returned" /\ ret.err = NoErr
    /\ Len(procs) = 1 /\ ToolSucceeded(procs[1])
    /\ Len(stdout) = 2 /\ stdout[1].kind = "tool" /\ stdout[2].n = 20

Transmitters == {"kitty", "inline", "sixel"}

Rank(t) == IF t = "kitty" THEN 1 ELSE IF t = "inline" THEN 2 ELSE 3

\* The capability flag of each transmitter.
Flags ==
    [kitty |-> isKitty(env), inline |-> isInlineImageCapable(env),
     sixel |-> isSixelCapable(env)]

\* C15: in one call the transmitters are attempted in the order Kitty, inline-OSC,
\* Sixel; one is attempted only when its flag is true and every capable
\* transmitter above it has been attempted and has failed in this call; none is
\* attempted after one has succeeded.
C15_StrictOrder ==
    LET flag == Flags
    IN  \A i \in 1..Len(attempts) :
            /\ flag[attempts[i].t]
            /\ \A j \in 1..(i - 1) :
                  /\ Rank(attempts[j].t) < Rank(attempts[i].t)
                  /\ attempts[j].res = "fail"
            /\ \A t \in Transmitters :
                  (Rank(t) < Rank(attempts[i].t) /\ flag[t])
                      => \E j \in 1..(i - 1) : attempts[j].t = t /\ attempts[j].res = "fail"
            /\ attempts[i].res = "ok" => (i = Len(attempts) /\ pc = "returned")

C15_Witness ==
    /\ pc = "returned"
    /\ [i \in 1..Len(attempts) |-> attempts[i].t] = <<"kitty", "inline", "sixel">>
    /\ attempts[3].res = "ok"

\* How many times transmitter t was called in this call of PreviewWand.
TimesAttempted(t) == Cardinality({i \in 1..Len(attempts) : attempts[i].t = t})

\* C16: in one call of PreviewWand no protocol level is tried twice: sendKittyPNG
\* and sendSixelPNG are each called at most once and at most one OSC-1337
\* sequence is put on the stream, also when the inline-OSC transmitter has failed
\* and sendSixelPNG goes through its own chain.
C16_EachLevelOnce ==
    /\ TimesAttempted("kitty") <= 1
    /\ TimesAttempted("inline") <= 1
    /\ TimesAttempted("sixel") <= 1
    /\ Cardinality({i \in 1..Len(stdout) : stdout[i].kind = "osc1337"}) <= 1

\* C17: a call of PreviewWand that has obtained its bitmap returns an error only
\* when every transmitter whose flag is true has been attempted and has failed.
C17_ErrorOnlyAfterAllTried ==
    (pc = "returned" /\ ret.err # NoErr /\ blob > 0)
    => LET flag == Flags
       IN  \A t \in Transmitters :
               flag[t] => \E i \in 1..Len(attempts) :
                              attempts[i].t = t /\ attempts[i].res = "fail"

C17_Witness ==
    /\ pc = "returned" /\ ret.err # NoErr /\ blob > 0
    /\ Len(attempts) = 3 /\ \A i \in 1..3 : attempts[i].res = "fail"
    /\ ret.err.msg = <<"kitty preview failed">>

\* C18: whatever PreviewWand returns, at startup, after an edit or after an open,
\* the host's next step is to print its prompt: it can take that step, it does
\* not exit there, and it exits only from the prompt, on the quit command.
C18_FailedPreviewKeepsHost ==
    /\ [](pc = "returned" => ENABLED Resume)
    /\ [][/\ pc = "returned" => pc' = "prompt"
          /\ pc' = "exited" => pc = "prompt"]_vars

C18_Witness ==
    /\ pc = "prompt" /\ caller = "edit"
    /\ ret.done /\ ret.err # NoErr /\ ret.err.cause = "write"

\* PreviewWand has been entered and has not returned.
PreviewRunning == pc \notin HostStates \cup {"returned"}

\* C19: the preview does not hold the host up: after an edit or an open, while
\* PreviewWand (an external renderer it runs included) has not finished, the host
\* can go on to its prompt.
C19_PromptWithoutWaiting ==
    (caller \in {"edit", "open"} /\ PreviewRunning) => ENABLED Resume

\* The evaluations of isInlineImageCapable this call has logged: each one opens
\* with the line "checking inline-image capability".
InlineDerivations ==
    Cardinality({i \in 1..Len(stderr) : stderr[i] = "checking inline-image capability"})

\* C20: the capability flags are derived once in a call of PreviewWand and every
\* decision of the call uses that one derivation: no flag is evaluated a second
\* time within the call.
C20_DerivedOncePerCall == InlineDerivations <= 1

\* Two characters that are the same letter in either case, or the same character.
FoldEq(a, b) ==
    \/ a = b
    \/ \E k \in 1..Len(Lowers) : {a, b} = {Lowers[k], Uppers[k]}

\* s contains w, letters compared without regard to case.
ContainsFold(s, w) ==
    \E i \in 1..(Len(s) - Len(w) + 1) : \A j \in 1..Len(w) : FoldEq(s[i + j - 1], w[j])

\* The three rules as the specification words them.
RuleKitty(e) ==
    \/ e["KITTY_WINDOW_ID"] # <<>>
    \/ \E w \in {S_kitty, S_ghostty, S_ghost} : ContainsFold(e["TERM"], w)
    \/ e["KONSOLE_VERSION"] # <<>>

RuleInline(e) ==
    \/ e["TERM_PROGRAM"] \in {S_iTermApp, S_WezTerm, S_Warp, S_Hyper, S_vscode, S_VSCode,
                              S_Tabby, S_Bobcat}
    \/ \E w \in {S_wezterm, S_warp, S_tabby, S_vscode, S_wez} : ContainsFold(e["TERM"], w)
    \/ e["ITERM_SESSION_ID"] # <<>>

RuleSixel(e) ==
    \/ e["SIXEL_PREVIEW"] = <<"1">>
    \/ \E w \in {S_foot, S_st, S_linux} : ContainsFold(e["TERM"], w)
    \/ e["WT_SESSION"] # <<>>

\* C21: the three flags are the three rules of the specification, each evaluated
\* on its own (TERM searched without regard to case); supported() is their OR; a
\* non-empty KITTY_WINDOW_ID makes the Kitty flag true whatever TERM holds.
C21_DetectionRules ==
    probe.done
    => /\ probe.kitty = RuleKitty(env)
       /\ probe.inline = RuleInline(env)
       /\ probe.sixel = RuleSixel(env)
       /\ probe.supported = (probe.kitty \/ probe.inline \/ probe.sixel)
       /\ env["KITTY_WINDOW_ID"] # <<>> => probe.kitty

C21_Witness ==
    /\ probe.done
    /\ env["KITTY_WINDOW_ID"] # <<>> /\ env["TERM"] = S_WezTerm
    /\ env["TERM_PROGRAM"] = <<>> /\ env["ITERM_SESSION_ID"] = <<>>
    /\ probe.kitty /\ probe.inline /\ ~probe.sixel /\ probe.supported

\* C22: evaluating the detection rules and supported() writes nothing to any
\* stream and changes nothing else, with debug tracing enabled or not.
C22_DetectionPure ==
    probe.done
    => /\ stdout = <<>> /\ stderr = <<>>
       /\ procs = <<>> /\ attempts = <<>> /\ nwrites = 0 /\ ~ret.done

\* A step of PreviewWand in which a transmitter attempt begins, an attempt ends in
\* success or failure, or the call leaves with an error.
OrchestratorTransition ==
    /\ pc \in {"idle", "clone"} \/ PreviewRunning
    /\ \/ Len(attempts') > Len(attempts)
       \/ attempts' # attempts /\ Len(attempts') = Len(attempts)
       \/ pc' = "returned" /\ ret'.err # NoErr

\* C23: with the debug flag set every such step of PreviewWand puts at least one
\* trace line on stderr; with the flag clear no trace line is ever written.
C23_EveryTransitionTraced ==
    [][/\ (previewDebug /\ OrchestratorTransition) => Len(stderr') > Len(stderr)
       /\ ~previewDebug => stderr' = <<>>]_vars

C25_InputNeverMutated ==
    [][/\ pc # "prompt" => wand' = wand
       /\ pc \notin HostStates \cup {"clone", "returned"} => blob' = blob
       /\ pc' = "returned" => ~clone'.live
       /\ clone'.live => clone'.format = "PNG" /\ clone'.image = wand.image]_vars

C25_Witness ==
    /\ pc = "returned"
    /\ clone.format = "PNG" /\ ~clone.live
    /\ wand = [format |-> "JPEG", image |-> "loaded"]
    /\ ret.err # NoErr /\ stdout # <<>>

\* C26: after a Kitty transmission without write error the payloads of the control
\* sequences on the stream, in order, are consecutive slices of the base64 text
\* that start at its beginning and end at its end (their concatenation is the
\* text); none is empty, each but the last is 4096 long and the last is 1..4096.
C26_PayloadsAreTheEncoding ==
    (blob > 0 /\ Len(attempts) >= 1 /\ attempts[1].t = "kitty" /\ attempts[1].res = "ok")
    => LET ks == KittySeqs
           size(i) == ks[i].hi - ks[i].lo
       IN  /\ Len(ks) >= 1
           /\ ks[1].lo = 0
           /\ ks[Len(ks)].hi = EncodedLen(blob)
           /\ \A i \in 1..(Len(ks) - 1) : ks[i + 1].lo = ks[i].hi /\ size(i) = 4096
           /\ \A i \in 1..Len(ks) : ks[i].n = SeqUnits /\ size(i) >= 1
           /\ size(Len(ks)) \in 1..4096

C26_Witness ==
    /\ pc = "returned" /\ ret.err = NoErr
    /\ Len(attempts) = 1 /\ attempts[1].t = "kitty" /\ attempts[1].res = "ok"
    /\ EncodedLen(blob) = 2 * 4096
    /\ Len(KittySeqs) = 2
    /\ KittySeqs[2].lo = 4096 /\ KittySeqs[2].hi = 8192

NoMatch == Errorf("no preview protocol matched")

\* C27 (as stated): PreviewWand never returns "no preview protocol matched", and
\* every call that has passed the supported check has attempted a transmitter by
\* the time it returns.
C27_TransmitterAfterSupportedCheck ==
    /\ ret.err # NoMatch
    /\ (pc = "returned" /\ PreviewSupported(env)) => Len(attempts) >= 1

\* C27 (amended): PreviewWand never returns "no preview protocol matched", and
\* every call that has passed the supported check and has got a non-empty bitmap
\* from the clone has attempted a transmitter by the time it returns; a call that
\* got none returns its error with no transmitter attempted.
C27_NoMatchUnreachable ==
    /\ ret.err # NoMatch
    /\ (pc = "returned" /\ PreviewSupported(env))
       => IF blob > 0 THEN Len(attempts) >= 1
          ELSE attempts = <<>> /\ ret.err # NoErr /\ stdout = <<>>

C27_Witness ==
    /\ pc = "returned"
    /\ SixelOnly /\ PreviewSupported(env)
    /\ blob > 0
    /\ Len(attempts) = 1 /\ attempts[1].t = "sixel"

SixelOscComplete ==
    \E i \in 1..Len(stdout) :
        stdout[i].kind = "osc1337" /\ stdout[i].by = "sixel" /\ stdout[i].n = SeqUnits

BothToolsFailed == Len(procs) = 2 /\ \A j \in 1..2 : ~ToolSucceeded(procs[j])

\* C28: a Sixel attempt on a non-empty bitmap that ended in an error had both
\* tools fail and its last-resort Write fail, and the error is that Write's; one
\* whose tools both failed and whose last-resort Write went through ended without
\* error. So on a Sixel-only terminal where neither tool could be started and the
\* Write went through, PreviewWand returns nil with no tool output on the stream.
C28_OnlyLastResortWriteSurfaces ==
    /\ \A i \in 1..Len(attempts) :
         (attempts[i].t = "sixel" /\ blob > 0)
         => /\ attempts[i].res = "fail"
               => /\ BothToolsFailed
                  /\ ~SixelOscComplete
                  /\ attempts[i].err = WriteErr(nwrites)
            /\ (attempts[i].res # "running" /\ BothToolsFailed /\ SixelOscComplete)
               => attempts[i].res = "ok"
    /\ (SixelOnly /\ pc = "returned" /\ blob > 0 /\ SixelOscComplete
          /\ Len(procs) = 2 /\ \A j \in 1..2 : ~procs[j].started)
       => /\ ret.err = NoErr
          /\ \A k \in 1..Len(stdout) : stdout[k].kind # "tool"

C28_Witness ==
    /\ SixelOnly /\ pc = "returned" /\ blob > 0
    /\ Len(procs) = 2 /\ ~procs[1].started /\ ~procs[2].started
    /\ SixelOscComplete
    /\ ret.err = NoErr
    /\ \A k \in 1..Len(stdout) : stdout[k].kind # "tool"

IsComplete(s) == s.n = SeqUnits

HasControl(s) == s.n >= 2

\* The first attempt was Kitty's, it failed, and at least one of its sequences had
\* been written whole before.
KittyAborted ==
    /\ Len(attempts) >= 1 /\ attempts[1].t = "kitty" /\ attempts[1].res = "fail"
    /\ Len(SelectSeq(KittySeqs, IsComplete)) >= 1

\* Everything the Kitty transmitter wrote comes first on the stream, and nothing
\* of it is a newline.
KittyBytesThenFallback ==
    /\ \A i \in 1..Len(stdout) : stdout[i].by = "kitty" => stdout[i].kind = "kitty"
    /\ \A i, j \in 1..Len(stdout) : (i < j /\ stdout[j].by = "kitty") => stdout[i].by = "kitty"

TrailerAt(t) ==
    {j \in 1..Len(stdout) : stdout[j] = Newlines(t, TrailingNewlines)[1]}

OscWhole(t) ==
    \E j \in 1..Len(stdout) :
        stdout[j].kind = "osc1337" /\ stdout[j].by = t /\ stdout[j].n = SeqUnits

\* C30: an inline-OSC attempt that is over has put its twenty newlines on the
\* stream once, failed or not; it failed exactly when its Write did not put the
\* whole sequence out, and its error is that Write's; whatever the Sixel fallback
\* puts on the stream comes after those newlines. A Sixel attempt that went to its
\* last resort ends, failed or not, with its twenty newlines as the last thing on
\* the stream, and when it failed its error is the last-resort Write's.
C30_NewlinesDespiteWriteError ==
    \A i \in 1..Len(attempts) :
       LET a == attempts[i]
       IN  /\ (a.t = "inline" /\ a.res # "running")
              => /\ Cardinality(TrailerAt("inline")) = 1
                 /\ (a.res = "fail") = ~OscWhole("inline")
                 /\ a.res = "fail" => a.err.cause = "write"
                 /\ \A j \in TrailerAt("inline"), k \in 1..Len(stdout) :
                       stdout[k].by = "sixel" => j < k
           /\ (a.t = "sixel" /\ a.res # "running" /\ BothToolsFailed)
              => /\ Len(stdout) \in TrailerAt("sixel")
                 /\ Cardinality(TrailerAt("sixel")) = 1
                 /\ (a.res = "fail") = ~OscWhole("sixel")
                 /\ a.res = "fail" => a.err = WriteErr(nwrites)

C30_Witness ==
    /\ pc = "returned"
    /\ Len(attempts) = 2
    /\ attempts[1].t = "inline" /\ attempts[1].res = "fail"
    /\ attempts[2].t = "sixel" /\ attempts[2].res = "fail"
    /\ ~OscWhole("inline") /\ ~OscWhole("sixel")
    /\ Cardinality(TrailerAt("inline")) = 1 /\ Cardinality(TrailerAt("sixel")) = 1

====
